---- MODULE Spec2Model ----
(***************************************************************************)
(* pm-store: the turn engine's store layer (package v1).                   *)
(*                                                                         *)
(* The repository holds two revisions of store.go that differ in the code  *)
(* modelled here: the 1371-line revision (src/unnamed/part_000) and the    *)
(* 1513-line revision (src/store.go).  Vote, buildStepResult and           *)
(* AcceptGroupInvitation are the same text in both; ArchiveStepResults     *)
(* differs.  The variable rev says which revision a behaviour runs.        *)
(*                                                                         *)
(* The remote store is a path-addressed tree.  Of games/{bin} the model    *)
(* keeps status, current_step, steps/{s}/result/{g} and step_results/{g};  *)
(* of players/{bin} the invitations and group_ids; of game_groups/{bin}    *)
(* the members map.  An absent node and an empty list are the same thing   *)
(* in the store, so both are the empty sequence here.                      *)
(***************************************************************************)
EXTENDS Integers, Sequences, FiniteSets, TLC

\* ------------------------------------------------------------------ bounds
MaxVotes == 2        \* results ever built (uuid supply)
MaxClock == 1        \* largest millisecond reading of time.Now()
MaxSteps == 3        \* longest step list given to AddAllStepsToDb

Procs    == {"h1", "h2"}     \* concurrent request handlers
Players  == {"p2", "p3"}     \* the invited players
InvCallers == {"p2"}         \* the players whose invitation calls SpecInv runs
Owner    == "p1"             \* creator of the groups and of the game
Groups   == {"gr1", "gr2"}
InvGroups == {"gr1"}         \* the groups the calls of SpecInv name
InvIds   == {"i1", "i2"}     \* bins of each player's invitations
UnknownInv == "ix"           \* an invitationId matching no invitation
IndexKeys == <<"0", "1", "2">>   \* the keys under which the store keeps a list
Gamers   == {"ga", "gb"}
StepBins == {"s1", "s2"}
NoStep   == "none"           \* a current_step that names no step of the game
GameBin  == "g1"
Revisions == {"part_000", "store"}
Durations == {0, 30, 45}     \* step durations, seconds
StartTimes == {0, 1000}      \* game start times, milliseconds

\* ------------------------------------------------------------------ state
VARIABLES
  rev,            \* which revision of store.go the process runs
  dbCurrentStep,  \* games/g1/current_step
  dbStatus,       \* games/g1/status
  dbSteps,        \* games/g1/steps/{s}/result/{g} : sequence of Result
  dbStepResults,  \* games/g1/step_results/{g}     : sequence of Result
  mu,             \* Publisher.mu: TRUE when locked
  pc,             \* each handler's position
  call,           \* each handler's operation and arguments
  lgame,          \* each handler's fetched *models.Game
  ret,            \* each handler's return value
  nextBin,        \* uuid.New(): next unused identifier
  now,            \* time.Now().UnixMilli()
  archivesInRow,  \* history: ArchiveStepResults calls that returned nil since the last Vote call (0, 1, 2 = two or more)
  obj,            \* the *models.Player each caller holds and passes in
  dbInvitations,  \* players/{p}/invitations : key -> invitation
  dbGroupIds,     \* players/{p}/group_ids
  dbMembers,      \* game_groups/{gr}/members : key -> player bin
  dbGamers,       \* games/g1/gamers  : player bin -> gamer
  dbGamePlayers,  \* games/g1/players : player bin -> gamer
  dbInvited,      \* games/g1/invited
  last,           \* the last call made as one step: its arguments, result and store writes
  sched,          \* AddAllStepsToDb: its position, arguments and locals
  stepObj,        \* the *models.Step objects the steps argument points to
  dbStepDocs,     \* steps/{bin}
  dbEntities      \* the paths at which the generic dispatch has stored an entity

gameVars == <<dbCurrentStep, dbStatus, dbSteps, dbStepResults>>
procVars == <<mu, pc, call, lgame, ret, nextBin, now, archivesInRow>>
invVars == <<obj, dbInvitations, dbGroupIds, dbMembers, dbGamers, dbGamePlayers,
             dbInvited, last>>
stepVars == <<sched, stepObj, dbStepDocs>>
vars == <<rev, gameVars, procVars, invVars, stepVars, dbEntities>>

NoCall == [op |-> "none"]
NoGame == [fetched |-> FALSE]

EmptyResultMap == [g \in Gamers |-> <<>>]

\* models.Vote: the fields the store reads
Votes == [GameBin : {GameBin}, Source : Gamers, StepBin : StepBins]

\* models.Invitation as InvitePlayerToGroup / InvitePlayerToGame stored it
GroupInvitation ==
  [Bin |-> "i1", Invitation |-> "group", GameGroup |-> "gr1", GameId |-> "",
   Status |-> "received", Message |-> "", Accepted |-> FALSE, Declined |-> FALSE]

GameInvitation ==
  [Bin |-> "i2", Invitation |-> "game", GameGroup |-> "", GameId |-> GameBin,
   Status |-> "received", Message |-> "", Accepted |-> FALSE, Declined |-> FALSE]

\* a node with no child
EmptyNode == <<>>

\* a list as the store keeps it: children "0", "1", ...
ListNode(list) ==
  [k \in {IndexKeys[i] : i \in 1..Len(list)} |->
     list[CHOOSE i \in 1..Len(list) : IndexKeys[i] = k]]

\* the owner's models.Gamer
OwnerGamer ==
  [Bin |-> "gm1", GameId |-> GameBin, CharacterId |-> "1", IsAlive |-> TRUE]

\* CreateGameGroup: Members is a map keyed by bin in the 1371-line revision
\* and a list in the 1513-line revision
InitMembers(r) ==
  IF r = "store" THEN ListNode(<<Owner>>) ELSE (Owner :> Owner)

NoInvitationCall ==
  [op |-> "none", player |-> "", inv |-> "", group |-> "", ret |-> "", writes |-> <<>>]

\* a string is the sequence of its characters
Digits == <<"0", "1", "2", "3", "4", "5", "6", "7", "8", "9">>

IsDigit(c) == \E k \in DOMAIN Digits : Digits[k] = c

DigitValue(c) == (CHOOSE k \in DOMAIN Digits : Digits[k] = c) - 1

RECURSIVE ParseDigits(_)
ParseDigits(q) ==
  IF q = <<>> THEN 0
  ELSE ParseDigits(SubSeq(q, 1, Len(q) - 1)) * 10 + DigitValue(q[Len(q)])

\* strconv.Atoi with its error dropped (`v, _ := strconv.Atoi(s)`): an
\* optional sign and decimal digits, 0 for anything else
Atoi(str) ==
  LET signed == str # <<>> /\ str[1] \in {"+", "-"}
      body == IF signed THEN Tail(str) ELSE str
  IN IF body = <<>> \/ \E k \in DOMAIN body : ~IsDigit(body[k]) THEN 0
     ELSE IF signed /\ str[1] = "-" THEN 0 - ParseDigits(body)
     ELSE ParseDigits(body)

RECURSIVE FormatDigits(_)
FormatDigits(n) ==
  IF n < 10 THEN <<Digits[n + 1]>>
  ELSE FormatDigits(n \div 10) \o <<Digits[(n % 10) + 1]>>

\* strconv.Itoa
Itoa(n) == IF n < 0 THEN <<"-">> \o FormatDigits(0 - n) ELSE FormatDigits(n)

\* a models.Step as the caller of AddAllStepsToDb passes it: duration set,
\* times and index not yet
NewStep(bin, duration) ==
  [Bin |-> bin, Duration |-> Itoa(duration), StartTime |-> <<>>, EndTime |-> <<>>,
   StepIndex |-> 0]

\* the step lists given to AddAllStepsToDb: 0..MaxSteps steps
StepLists ==
  UNION {[1..n -> Durations] : n \in 0..MaxSteps}

NoSchedule ==
  [pc |-> "none", steps |-> <<>>, startTime |-> <<>>, lastEndTime |-> <<>>,
   i |-> 0, ret |-> "none"]

\* AddAllStepsToDb(steps, startTime) about to run
ScheduleCall(n, start) ==
  [pc |-> "index", steps |-> [k \in 1..n |-> k], startTime |-> Itoa(start),
   lastEndTime |-> <<>>, i |-> 0, ret |-> "none"]

Init ==
  /\ \/ sched = NoSchedule /\ stepObj = <<>>
     \/ \E ds \in StepLists, start \in StartTimes :
          /\ sched = ScheduleCall(Len(ds), start)
          /\ stepObj = [k \in DOMAIN ds |-> NewStep(k, ds[k])]
  /\ dbStepDocs = <<>>
  /\ dbEntities = {}
  /\ rev \in Revisions
  /\ obj = [pl \in Players |->
             [Bin |-> pl, Invitations |-> <<GroupInvitation, GameInvitation>>,
              GroupIds |-> <<>>]]
  /\ dbInvitations = [pl \in Players |-> ("i1" :> GroupInvitation) @@ ("i2" :> GameInvitation)]
  /\ dbGroupIds = [pl \in Players |-> <<>>]
  /\ dbMembers = [gr \in Groups |-> InitMembers(rev)]
  /\ dbGamers \in {EmptyNode, Owner :> OwnerGamer}
  /\ dbGamePlayers = EmptyNode
  /\ dbInvited = <<"p2", "p3">>
  /\ last = NoInvitationCall
  /\ dbCurrentStep \in StepBins \cup {NoStep}
  /\ dbStatus = "created"
  /\ dbSteps = [s \in StepBins |-> EmptyResultMap]
  /\ dbStepResults = EmptyResultMap
  /\ mu = FALSE
  /\ pc = [p \in Procs |-> "idle"]
  /\ call = [p \in Procs |-> NoCall]
  /\ lgame = [p \in Procs |-> NoGame]
  /\ ret = [p \in Procs |-> "none"]
  /\ nextBin = 1
  /\ now = 0
  /\ archivesInRow = 0

\* store.getGameByBin / store.GetByBin(_, "games"): the decoded game
FetchedGame ==
  [fetched |-> TRUE, Bin |-> GameBin, CurrentStep |-> dbCurrentStep,
   Status |-> dbStatus, Steps |-> dbSteps, StepResults |-> dbStepResults]

\* ------------------------------------------------------------------ Vote

\* mutant: Vote without store.mu.Lock()
VoteLock_nolock(p) ==
  /\ pc[p] = "idle"
  /\ nextBin <= MaxVotes
  /\ \E v \in Votes : call' = [call EXCEPT ![p] = [op |-> "Vote", vote |-> v]]
  /\ mu' = TRUE
  /\ pc' = [pc EXCEPT ![p] = "vote_locked"]
  /\ ret' = [ret EXCEPT ![p] = "none"]
  /\ archivesInRow' = 0
  /\ UNCHANGED <<rev, dbEntities, stepVars, invVars, gameVars, lgame, nextBin, now>>

\* Vote: store.mu.Lock()
VoteLock(p) ==
  /\ pc[p] = "idle"
  /\ nextBin <= MaxVotes
  /\ mu = FALSE
  /\ \E v \in Votes : call' = [call EXCEPT ![p] = [op |-> "Vote", vote |-> v]]
  /\ mu' = TRUE
  /\ pc' = [pc EXCEPT ![p] = "vote_locked"]
  /\ ret' = [ret EXCEPT ![p] = "none"]
  /\ archivesInRow' = 0
  /\ UNCHANGED <<rev, dbEntities, stepVars, invVars, gameVars, lgame, nextBin, now>>

\* mutant: the error of the store call is ignored
VoteReturn_always(ok) == "true"

\* Vote: `if err != nil { return false }` ... `return true`
VoteReturn(ok) == IF ok THEN "true" ELSE "false"

\* Vote: game, err := store.getGameByBin(vote.GameBin); on error return false
\* (the deferred Unlock runs)
VoteFetch(p) ==
  /\ pc[p] = "vote_locked"
  /\ \E ok \in BOOLEAN :
       IF ok
       THEN /\ lgame' = [lgame EXCEPT ![p] = FetchedGame]
            /\ pc' = [pc EXCEPT ![p] = "vote_fetched"]
            /\ UNCHANGED <<mu, ret>>
       ELSE /\ pc' = [pc EXCEPT ![p] = "done"]
            /\ ret' = [ret EXCEPT ![p] = VoteReturn(FALSE)]
            /\ mu' = FALSE
            /\ UNCHANGED lgame
  /\ UNCHANGED <<rev, dbEntities, stepVars, invVars, gameVars, call, nextBin, now, archivesInRow>>

\* The models.Result buildStepResult appends
NewResult(game, gamerId, action, bin, stamp) ==
  [Bin |-> bin, StepBin |-> action.StepBin, GameBin |-> game.Bin,
   GamerId |-> gamerId, TimeStamp |-> stamp, Vote |-> action]

\* mutant: the map entry is set to the new Result alone
BuiltList_overwrite(game, gamerId, action, bin, stamp) ==
  <<NewResult(game, gamerId, action, bin, stamp)>>

\* buildStepResult: the gamer's list under the current step after the append
BuiltList(game, gamerId, action, bin, stamp) ==
  Append(game.Steps[game.CurrentStep][gamerId],
         NewResult(game, gamerId, action, bin, stamp))

\* buildStepResult: the update map, one path -> value
buildStepResult(game, gamerId, action, bin, stamp) ==
  [step |-> game.CurrentStep, gamer |-> gamerId,
   value |-> BuiltList(game, gamerId, action, bin, stamp)]

\* mutant: the update map is keyed steps/{step}/result, replacing the whole map
UpdateGameResult_wholeMap(steps, mp) ==
  [steps EXCEPT ![mp.step] = [g \in Gamers |-> IF g = mp.gamer THEN mp.value ELSE <<>>]]

\* store.UpdateGame(game.Bin, *mp): set steps/{step}/result/{gamer}
UpdateGameResult(steps, mp) ==
  [steps EXCEPT ![mp.step][mp.gamer] = mp.value]

\* Vote: buildStepResult, UpdateGame, return; the deferred Unlock runs on
\* every way out, the nil dereference of a missing current step included
VotePersist(p) ==
  /\ pc[p] = "vote_fetched"
  /\ IF lgame[p].CurrentStep \notin StepBins
     THEN /\ pc' = [pc EXCEPT ![p] = "panic"]
          /\ mu' = FALSE
          /\ UNCHANGED <<gameVars, ret, nextBin, now, lgame>>
     ELSE \E stamp \in now..(IF now < MaxClock THEN now + 1 ELSE now), ok \in BOOLEAN :
            LET mp == buildStepResult(lgame[p], call[p].vote.Source, call[p].vote,
                                      nextBin, stamp)
            IN /\ now' = stamp
               /\ nextBin' = nextBin + 1
               /\ mu' = FALSE
               /\ pc' = [pc EXCEPT ![p] = "done"]
               /\ lgame' = [lgame EXCEPT ![p].Steps = UpdateGameResult(@, mp)]
               /\ dbSteps' = IF ok THEN UpdateGameResult(dbSteps, mp) ELSE dbSteps
               /\ ret' = [ret EXCEPT ![p] = VoteReturn(ok)]
               /\ UNCHANGED <<dbCurrentStep, dbStatus, dbStepResults>>
  /\ UNCHANGED <<rev, dbEntities, stepVars, invVars, call, archivesInRow>>

\* the caller takes the result; the handler is free for the next request
Return(p) ==
  /\ pc[p] \in {"done", "panic"}
  /\ pc' = [pc EXCEPT ![p] = "idle"]
  /\ call' = [call EXCEPT ![p] = NoCall]
  /\ lgame' = [lgame EXCEPT ![p] = NoGame]
  /\ ret' = [ret EXCEPT ![p] = "none"]
  /\ UNCHANGED <<rev, dbEntities, stepVars, invVars, gameVars, mu, nextBin, now, archivesInRow>>

\* ---------------------------------------------------- ArchiveStepResults

\* ArchiveStepResults: g, err := store.GetByBin(gameId, "games"); no lock
ArchiveFetch(p) ==
  /\ pc[p] = "idle"
  /\ call' = [call EXCEPT ![p] = [op |-> "ArchiveStepResults"]]
  /\ \E ok \in BOOLEAN :
       IF ok
       THEN /\ lgame' = [lgame EXCEPT ![p] = FetchedGame]
            /\ pc' = [pc EXCEPT ![p] = "archive_fetched"]
            /\ ret' = [ret EXCEPT ![p] = "none"]
       ELSE /\ pc' = [pc EXCEPT ![p] = "done"]
            /\ ret' = [ret EXCEPT ![p] = "error"]
            /\ UNCHANGED lgame
  /\ UNCHANGED <<rev, dbEntities, stepVars, invVars, gameVars, mu, nextBin, now, archivesInRow>>

\* the orders in which `range game.Steps` may visit the steps
StepOrders ==
  {o \in [1..Cardinality(StepBins) -> StepBins] :
     \A i, j \in DOMAIN o : i # j => o[i] # o[j]}

\* the results of gamer g in the steps of `order` from position i on
RECURSIVE StepResultsFrom(_, _, _, _)
StepResultsFrom(steps, order, g, i) ==
  IF i > Len(order) THEN <<>>
  ELSE steps[order[i]][g] \o StepResultsFrom(steps, order, g, i + 1)

\* mutant: the map entry is assigned the step's results instead of appended to
ArchiveLoop_overwrite(game, order) ==
  [g \in Gamers |->
     IF StepResultsFrom(game.Steps, order, g, 1) = <<>> THEN game.StepResults[g]
     ELSE StepResultsFrom(game.Steps, order, g, 1)]

\* 1513-line revision, the loop over steps and results:
\*   game.StepResults[res.GamerId] = append(game.StepResults[res.GamerId], res)
ArchiveLoop_store(game, order) ==
  [g \in Gamers |-> game.StepResults[g] \o StepResultsFrom(game.Steps, order, g, 1)]

\* 1371-line revision, the same loop:
\*   var r = game.StepResults[res.GamerId]; r = append(r, res)
\* the appended slice r is dropped, the map entry keeps its old header
ArchiveLoop_part_000(game, order) ==
  [g \in Gamers |-> game.StepResults[g]]

\* game.StepResults after the loop
ArchiveLoop(r, game, order) ==
  IF r = "store" THEN ArchiveLoop_store(game, order)
  ELSE ArchiveLoop_part_000(game, order)

\* mutant: the steps are written back with their results
ClearedSteps_kept(steps) == steps

\* the second loop: step.Result = nil for every step of the game
ClearedSteps(steps) ==
  [s \in DOMAIN steps |-> EmptyResultMap]

\* ArchiveStepResults: both loops, then one store.Update(gameId,
\* {"steps": game.Steps, "step_results": game.StepResults}, "games")
ArchiveUpdate(p) ==
  /\ pc[p] = "archive_fetched"
  /\ \E order \in StepOrders, ok \in BOOLEAN :
       IF ok
       THEN /\ dbSteps' = ClearedSteps(lgame[p].Steps)
            /\ dbStepResults' = ArchiveLoop(rev, lgame[p], order)
            /\ ret' = [ret EXCEPT ![p] = "nil"]
            /\ archivesInRow' = IF archivesInRow = 0 THEN 1 ELSE 2
       ELSE /\ UNCHANGED <<dbSteps, dbStepResults, archivesInRow>>
            /\ ret' = [ret EXCEPT ![p] = "error"]
  /\ pc' = [pc EXCEPT ![p] = "done"]
  /\ UNCHANGED <<rev, dbEntities, stepVars, invVars, dbCurrentStep, dbStatus, mu, call, lgame, nextBin, now>>

VoteStep(p) == VoteLock(p) \/ VoteFetch(p) \/ VotePersist(p)

ArchiveStep(p) == ArchiveFetch(p) \/ ArchiveUpdate(p)

OthersIdle(p) == \A q \in Procs \ {p} : pc[q] = "idle"

\* the game specifications are run on a game that has its owner as gamer
InitGame == Init /\ dbGamers # EmptyNode /\ sched = NoSchedule

\* concurrent request handlers, every interleaving
Next == \E p \in Procs : VoteStep(p) \/ ArchiveStep(p) \/ Return(p)

Spec == InitGame /\ [][Next]_vars

\* one call at a time: a handler moves only while the others are idle
SeqVoteLock(p) == OthersIdle(p) /\ VoteLock(p)

SeqArchiveFetch(p) == OthersIdle(p) /\ ArchiveFetch(p)

NextSeq ==
  \E p \in Procs :
    \/ SeqVoteLock(p) \/ VoteFetch(p) \/ VotePersist(p)
    \/ SeqArchiveFetch(p) \/ ArchiveUpdate(p)
    \/ Return(p)

SpecSeq == InitGame /\ [][NextSeq]_vars

NextVote == \E p \in Procs : VoteStep(p) \/ Return(p)

SpecVote == InitGame /\ [][NextVote]_vars

\* ------------------------------------------ invitations and membership
\* Each call is one step: the callers of this part are modelled one at a
\* time, and a store call that fails ends the call where the code returns.

\* position of the first invitation with this bin, 0 when there is none
FindInvitation(invs, id) ==
  IF \E i \in 1..Len(invs) : invs[i].Bin = id
  THEN CHOOSE i \in 1..Len(invs) :
         invs[i].Bin = id /\ \A j \in 1..(i - 1) : invs[j].Bin # id
  ELSE 0

\* mutant: only an accepted invitation is refused
AlreadyTerminal_acceptedOnly(inv) == inv.Accepted

\* AcceptGroupInvitation: `if inv.Accepted {return}`, `if inv.Declined {return}`
AlreadyTerminal(inv) == inv.Accepted \/ inv.Declined

\* AcceptGroupInvitation: p.Invitations[i].Accepted = true; .Status = "accepted"
AcceptedInvitation(inv) == [inv EXCEPT !.Accepted = TRUE, !.Status = "accepted"]

\* mutant: Accepted is left as it was
DeclinedInvitation_keepAccepted(inv) ==
  [inv EXCEPT !.Declined = TRUE, !.Status = "declined"]

\* DeclineGameGroupInvitation: Declined = true; Accepted = false; Status = "declined"
DeclinedInvitation(inv) ==
  [inv EXCEPT !.Declined = TRUE, !.Accepted = FALSE, !.Status = "declined"]

\* the child a partial update creates where none was: only the named fields
PartialInvitation(accepted, declined) ==
  [Bin |-> "", Invitation |-> "", GameGroup |-> "", GameId |-> "",
   Status |-> "", Message |-> "", Accepted |-> accepted, Declined |-> declined]

\* UpdateInvitation: Update players/{p}/invitations/{id} with accepted, declined
UpdateInvitation(node, id, accepted, declined) ==
  IF id \in DOMAIN node
  THEN [node EXCEPT ![id].Accepted = accepted, ![id].Declined = declined]
  ELSE (id :> PartialInvitation(accepted, declined)) @@ node

\* mutant: groupId is appended without the membership check
WithGroupId_always(groupIds, groupId) == Append(groupIds, groupId)

\* AcceptGroupInvitation: append groupId unless the list holds it
WithGroupId(groupIds, groupId) ==
  IF groupId \in {groupIds[i] : i \in DOMAIN groupIds} THEN groupIds
  ELSE Append(groupIds, groupId)

\* GetByBin(groupId, "game_groups"): a list-typed Members (1513-line revision)
\* decodes only from a node whose children are list keys
GroupDecodes(r, node) ==
  r = "part_000" \/ DOMAIN node \subseteq {IndexKeys[i] : i \in DOMAIN IndexKeys}

\* AddPlayerToGroupMembers(gId, bin, m): Set game_groups/{gId}/members/{bin}
AddPlayerToGroupMembers(node, bin, m) ==
  (bin :> m) @@ node

\* store path written by a call
PathInvitation(pl, id) == <<"players", pl, "invitations", id>>
PathPlayer(pl, field) == <<"players", pl, field>>
PathMembers(gr, key) == <<"game_groups", gr, "members", key>>
PathGroup(gr, field) == <<"game_groups", gr, field>>
PathGame(field) == <<"games", GameBin, field>>

\* AcceptGroupInvitation(p, invitationId, groupId).  failAt: 0 no store call
\* fails, 1 the group_ids update, 2 the group fetch, 3 the member insert;
\* invOk: whether UpdateInvitation succeeds (its error is not looked at).
\* last.failed and last.invFailed keep which store call failed.
AcceptGroupInvitation(pl, invitationId, groupId) ==
  /\ \E failAt \in 0..3, invOk \in BOOLEAN :
    LET p == obj[pl]
        i == FindInvitation(p.Invitations, invitationId)
        call1 == [op |-> "AcceptGroupInvitation", player |-> pl,
                  inv |-> invitationId, group |-> groupId]
    IN IF i # 0 /\ AlreadyTerminal(p.Invitations[i])
       THEN /\ last' = call1 @@ [ret |-> "error", writes |-> <<>>, failed |-> 0,
                                 invFailed |-> FALSE]
            /\ UNCHANGED <<obj, dbInvitations, dbGroupIds, dbMembers>>
       ELSE
         LET invs1 == IF i # 0 THEN [p.Invitations EXCEPT ![i] = AcceptedInvitation(@)]
                      ELSE p.Invitations
             p1 == [p EXCEPT !.Invitations = invs1,
                             !.GroupIds = WithGroupId(p.GroupIds, groupId)]
             fail == IF failAt \in {0, 3} /\ ~GroupDecodes(rev, dbMembers[groupId])
                     THEN 2 ELSE failAt
             w1 == IF i # 0 THEN <<PathInvitation(pl, invitationId)>> ELSE <<>>
             w2 == <<PathPlayer(pl, "group_ids")>>
             w3 == IF fail \in {0, 3} THEN <<PathMembers(groupId, groupId)>> ELSE <<>>
         IN /\ obj' = [obj EXCEPT ![pl] = p1]
            /\ dbInvitations' =
                 IF i # 0 /\ invOk
                 THEN [dbInvitations EXCEPT ![pl] = UpdateInvitation(@, invitationId, TRUE, FALSE)]
                 ELSE dbInvitations
            /\ dbGroupIds' = IF fail # 1 THEN [dbGroupIds EXCEPT ![pl] = p1.GroupIds]
                             ELSE dbGroupIds
            /\ dbMembers' =
                 IF fail = 0
                 THEN [dbMembers EXCEPT ![groupId] = AddPlayerToGroupMembers(@, groupId, pl)]
                 ELSE dbMembers
            /\ last' = call1 @@ [ret |-> IF fail = 0 THEN "true" ELSE "error",
                                 writes |-> w1 \o w2 \o w3, failed |-> fail,
                                 invFailed |-> (i # 0 /\ ~invOk)]
  /\ UNCHANGED <<rev, dbEntities, stepVars, gameVars, procVars, dbGamers, dbGamePlayers, dbInvited>>

\* the members the code holds after GetByBin: key order of a list node
MembersList(node) ==
  [i \in 1..Cardinality(DOMAIN node) |-> node[IndexKeys[i]]]

\* q without its element at position i
RemoveAt(q, i) ==
  [j \in 1..(Len(q) - 1) |-> IF j < i THEN q[j] ELSE q[j + 1]]

\* the loop `for i, m := range list { if m == x { remove i; break } }`
RemoveFirst(q, x) ==
  IF \E i \in 1..Len(q) : q[i] = x
  THEN RemoveAt(q, CHOOSE i \in 1..Len(q) : q[i] = x /\ \A j \in 1..(i - 1) : q[j] # x)
  ELSE q

\* 1371-line revision: `if m.Bin == p.Bin { delete(g.Members, p.Bin) }`:
\* the key removed is the player's bin, wherever the player was found
RemoveMember_part_000(node, pl) ==
  IF \E k \in DOMAIN node : node[k] = pl
  THEN [k \in DOMAIN node \ {pl} |-> node[k]]
  ELSE node

\* 1513-line revision: the first list element with the player's bin is cut out
RemoveMember_store(node, pl) ==
  ListNode(RemoveFirst(MembersList(node), pl))

RemoveMember(r, node, pl) ==
  IF r = "store" THEN RemoveMember_store(node, pl) ELSE RemoveMember_part_000(node, pl)

\* DeclineGameGroupInvitation(p, invitationId, groupId).  failAt: 0 no store
\* call fails, 1 the invitations update, 2 the group fetch, 3 the members
\* update; the call returns nothing, so `failed` keeps which call failed
DeclineGameGroupInvitation(pl, invitationId, groupId) ==
  /\ \E failAt \in 0..3 :
    LET p == obj[pl]
        i == FindInvitation(p.Invitations, invitationId)
        invs1 == IF i # 0 THEN [p.Invitations EXCEPT ![i] = DeclinedInvitation(@)]
                 ELSE p.Invitations
        fail == IF failAt \in {0, 3} /\ ~GroupDecodes(rev, dbMembers[groupId])
                THEN 2 ELSE failAt
        w1 == <<PathPlayer(pl, "invitations")>>
        w2 == IF fail \in {0, 3} THEN <<PathGroup(groupId, "members")>> ELSE <<>>
    IN /\ obj' = [obj EXCEPT ![pl].Invitations = invs1]
       /\ dbInvitations' = IF fail # 1 THEN [dbInvitations EXCEPT ![pl] = ListNode(invs1)]
                           ELSE dbInvitations
       /\ dbMembers' = IF fail = 0
                       THEN [dbMembers EXCEPT ![groupId] = RemoveMember(rev, @, pl)]
                       ELSE dbMembers
       /\ last' = [op |-> "DeclineGameGroupInvitation", player |-> pl,
                   inv |-> invitationId, group |-> groupId, ret |-> "void",
                   writes |-> w1 \o w2, failed |-> fail]
  /\ UNCHANGED <<rev, dbEntities, stepVars, gameVars, procVars, dbGroupIds, dbGamers, dbGamePlayers, dbInvited>>

\* the invitation AcceptGameInvitation writes in place of the player's list
AcceptedGameInvitation(invitation) ==
  [Bin |-> invitation.Bin, GameGroup |-> invitation.GameGroup, Status |-> "received",
   Invitation |-> "game", Message |-> "I'm down!", GameId |-> invitation.GameId,
   Accepted |-> TRUE, Declined |-> FALSE]

\* the invitation DeclineGameInvitation writes in place of the player's list
DeclinedGameInvitation(invitation) ==
  [Bin |-> invitation.Bin, GameGroup |-> invitation.GameGroup, Status |-> "received",
   Invitation |-> "game", Message |-> "I'm not down!", GameId |-> invitation.GameId,
   Accepted |-> FALSE, Declined |-> TRUE]

\* AcceptGameInvitation: the models.Gamer put at g.Gamers[playerId]
NewGamer(gameId) ==
  [Bin |-> "uuid", GameId |-> gameId, CharacterId |-> "3", IsAlive |-> TRUE]

\* the invitations of the player that name the game
GameInvitationsOf(pl) ==
  {obj[pl].Invitations[i] : i \in {j \in DOMAIN obj[pl].Invitations :
                                     obj[pl].Invitations[j].GameId = GameBin}}

\* AcceptGameInvitation(playerId, invitation).  The 1371-line revision only
\* updates the player (failAt 0 or 3); the 1513-line revision first fetches
\* the game (1), assigns into g.Gamers, which panics on the nil map of a game
\* without gamers, and updates games/{id} with "players" (2).
AcceptGameInvitation(pl, invitation) ==
  /\ \E failAt \in 0..3 :
    LET call1 == [op |-> "AcceptGameInvitation", player |-> pl,
                  inv |-> invitation.Bin, group |-> ""]
        wGame == <<PathGame("players")>>
        wPlayer == <<PathPlayer(pl, "invitations")>>
        written == [dbInvitations EXCEPT ![pl] = ListNode(<<AcceptedGameInvitation(invitation)>>)]
    IN IF rev = "part_000"
       THEN /\ failAt \in {0, 3}
            /\ dbInvitations' = IF failAt = 0 THEN written ELSE dbInvitations
            /\ last' = call1 @@ [ret |-> IF failAt = 0 THEN "true" ELSE "error",
                                 writes |-> wPlayer]
            /\ UNCHANGED dbGamePlayers
       ELSE IF failAt = 1
       THEN /\ last' = call1 @@ [ret |-> "error", writes |-> <<>>]
            /\ UNCHANGED <<dbInvitations, dbGamePlayers>>
       ELSE IF dbGamers = EmptyNode
       THEN /\ last' = call1 @@ [ret |-> "panic", writes |-> <<>>]
            /\ UNCHANGED <<dbInvitations, dbGamePlayers>>
       ELSE /\ dbGamePlayers' = IF failAt = 2 THEN dbGamePlayers
                                ELSE (pl :> NewGamer(invitation.GameId)) @@ dbGamers
            /\ dbInvitations' = IF failAt = 0 THEN written ELSE dbInvitations
            /\ last' = call1 @@ [ret |-> IF failAt = 0 THEN "true" ELSE "error",
                                 writes |-> IF failAt = 2 THEN wGame ELSE wGame \o wPlayer]
  /\ UNCHANGED <<rev, dbEntities, stepVars, gameVars, procVars, obj, dbGroupIds, dbMembers, dbGamers, dbInvited>>

\* DeclineGameInvitation(playerId, invitation).  The 1371-line revision only
\* updates the player (failAt 0 or 3); the 1513-line revision first fetches
\* the game (1), cuts the player out of g.Invited and updates games/{id}
\* with "invited" (2).
DeclineGameInvitation(pl, invitation) ==
  /\ \E failAt \in 0..3 :
    LET call1 == [op |-> "DeclineGameInvitation", player |-> pl,
                  inv |-> invitation.Bin, group |-> ""]
        wGame == <<PathGame("invited")>>
        wPlayer == <<PathPlayer(pl, "invitations")>>
        written == [dbInvitations EXCEPT ![pl] = ListNode(<<DeclinedGameInvitation(invitation)>>)]
    IN IF rev = "part_000"
       THEN /\ failAt \in {0, 3}
            /\ dbInvitations' = IF failAt = 0 THEN written ELSE dbInvitations
            /\ last' = call1 @@ [ret |-> IF failAt = 0 THEN "true" ELSE "error",
                                 writes |-> wPlayer]
            /\ UNCHANGED dbInvited
       ELSE IF failAt = 1
       THEN /\ last' = call1 @@ [ret |-> "error", writes |-> <<>>]
            /\ UNCHANGED <<dbInvitations, dbInvited>>
       ELSE /\ dbInvited' = IF failAt = 2 THEN dbInvited ELSE RemoveFirst(dbInvited, pl)
            /\ dbInvitations' = IF failAt = 0 THEN written ELSE dbInvitations
            /\ last' = call1 @@ [ret |-> IF failAt = 0 THEN "true" ELSE "error",
                                 writes |-> IF failAt = 2 THEN wGame ELSE wGame \o wPlayer]
  /\ UNCHANGED <<rev, dbEntities, stepVars, gameVars, procVars, obj, dbGroupIds, dbMembers, dbGamers, dbGamePlayers>>

NextInv ==
  \E pl \in InvCallers :
    \/ \E id \in InvIds \cup {UnknownInv}, gr \in InvGroups : AcceptGroupInvitation(pl, id, gr)
    \/ \E id \in InvIds \cup {UnknownInv}, gr \in InvGroups : DeclineGameGroupInvitation(pl, id, gr)
    \/ \E inv \in GameInvitationsOf(pl) : AcceptGameInvitation(pl, inv)
    \/ \E inv \in GameInvitationsOf(pl) : DeclineGameInvitation(pl, inv)

\* the invitation state machine is run on a game whose current step is fixed
InitInv == Init /\ dbCurrentStep = "s1" /\ sched = NoSchedule

\* the invitation and membership calls of a player, one at a time, in any order
SpecInv == InitInv /\ [][NextInv]_vars

\* AcceptGroupInvitation calls by every player into every group, one at a time
NextAccept ==
  \E pl \in Players, id \in {"i1", UnknownInv}, gr \in Groups :
    AcceptGroupInvitation(pl, id, gr)

\* the group calls are run on a game that has its owner as gamer
InitGroup == InitInv /\ dbGamers # EmptyNode

SpecAccept == InitGroup /\ [][NextAccept]_vars

\* AddPlayerToGroup, 1371-line revision: g.Members[p.Bin] = p
AddMember_part_000(node, pl) == (pl :> pl) @@ node

\* AddPlayerToGroup, 1513-line revision: g.Members = append(g.Members, p)
AddMember_store(node, pl) == ListNode(Append(MembersList(node), pl))

AddMember(r, node, pl) ==
  IF r = "store" THEN AddMember_store(node, pl) ELSE AddMember_part_000(node, pl)

\* AddPlayerToGroup(playerId, groupId).  failAt: 0 no store call fails, 1 the
\* group fetch, 2 the player fetch, 3 the members update.  The assignment
\* into the nil map of a group without members panics (1371-line revision).
AddPlayerToGroup(pl, groupId) ==
  /\ Cardinality(DOMAIN dbMembers[groupId]) < Len(IndexKeys)
  /\ \E failAt \in 0..3 :
       LET fail == IF ~GroupDecodes(rev, dbMembers[groupId]) THEN 1 ELSE failAt
           panics == fail \in {0, 3} /\ rev = "part_000" /\ dbMembers[groupId] = EmptyNode
       IN /\ dbMembers' = IF fail = 0 /\ ~panics
                          THEN [dbMembers EXCEPT ![groupId] = AddMember(rev, @, pl)]
                          ELSE dbMembers
          /\ last' = [op |-> "AddPlayerToGroup", player |-> pl, inv |-> "",
                      group |-> groupId, ret |-> IF panics THEN "panic" ELSE "void",
                      writes |-> IF fail \in {0, 3} /\ ~panics
                                 THEN <<PathGroup(groupId, "members")>> ELSE <<>>]
  /\ UNCHANGED <<rev, dbEntities, stepVars, gameVars, procVars, obj, dbInvitations, dbGroupIds, dbGamers,
                 dbGamePlayers, dbInvited>>

\* players joining one group, by invitation or directly, one call at a time
NextMembers ==
  \E pl \in Players, gr \in InvGroups :
    \/ \E id \in {"i1", UnknownInv} : AcceptGroupInvitation(pl, id, gr)
    \/ AddPlayerToGroup(pl, gr)

SpecMembers == InitGroup /\ [][NextMembers]_vars

\* a player joining a group, by invitation or directly, and declining
NextLeave ==
  \E pl \in InvCallers, gr \in InvGroups :
    \/ \E id \in {"i2", UnknownInv} : AcceptGroupInvitation(pl, id, gr)
    \/ AddPlayerToGroup(pl, gr)
    \/ \E id \in {"i1", UnknownInv} : DeclineGameGroupInvitation(pl, id, gr)

SpecLeave == InitGroup /\ [][NextLeave]_vars

\* --------------------------------------------------------- step scheduling
\* AddAllStepsToDb(steps, startTime), 1513-line revision.  sched.steps is the
\* local slice (positions of stepObj, as the slice holds pointers); the range
\* loop runs over the slice as it was when the loop began.

\* mutant: a failed write removes the steps stored before it
CreateStep_rollback(bin, ok) ==
  /\ ~mu
  /\ mu' = ~ok
  /\ dbStepDocs' = IF ok THEN (bin :> stepObj'[bin]) @@ dbStepDocs ELSE <<>>

\* CreateStep(b): Lock, Set steps/{bin}; an error returns with the lock held
CreateStep(bin, ok) ==
  /\ ~mu
  /\ mu' = ~ok
  /\ dbStepDocs' = IF ok THEN (bin :> stepObj'[bin]) @@ dbStepDocs ELSE dbStepDocs

\* the first loop: steps[i].StepIndex = i
AddAllStepsToDb_Index ==
  /\ sched.pc = "index"
  /\ stepObj' = [k \in DOMAIN stepObj |-> [stepObj[k] EXCEPT !.StepIndex = k - 1]]
  /\ sched' = [sched EXCEPT !.pc = IF Len(stepObj) = 0 THEN "return" ELSE "loop"]
  /\ UNCHANGED <<rev, dbEntities, gameVars, procVars, invVars, dbStepDocs>>

\* var eTime = startTimeMillis + (stepDurationSeconds * 1000) + 500
EndTimeOf(startTimeMillis, stepDurationSeconds) ==
  startTimeMillis + (stepDurationSeconds * 1000) + 500

\* the position after iteration i of a loop over n steps, Create having returned ok
AfterIteration(ok, n) ==
  [sched EXCEPT !.pc = IF ~ok THEN "done" ELSE IF sched.i + 1 = n THEN "return" ELSE "loop",
                !.ret = IF ~ok THEN "nil" ELSE "none",
                !.i = sched.i + 1,
                !.steps = Append(sched.steps, sched.i + 1)]

\* iteration i = 0
AddAllStepsToDb_First ==
  /\ sched.pc = "loop" /\ sched.i = 0
  /\ \E ok \in BOOLEAN :
       LET s == stepObj[1]
           startTimeMillis == Atoi(sched.startTime)
           stepDurationSeconds == Atoi(s.Duration)
           eTime == EndTimeOf(startTimeMillis, stepDurationSeconds)
       IN /\ stepObj' = [stepObj EXCEPT ![1] =
                           [s EXCEPT !.StepIndex = 0, !.StartTime = sched.startTime,
                                     !.EndTime = Itoa(eTime)]]
          /\ sched' = [AfterIteration(ok, Len(stepObj)) EXCEPT !.lastEndTime = Itoa(eTime)]
          /\ CreateStep(1, ok)
  /\ UNCHANGED <<rev, dbEntities, gameVars, invVars, pc, call, lgame, ret, nextBin, now, archivesInRow>>

\* iteration i >= 1; lastEndTime is assigned in iteration 0 only
AddAllStepsToDb_Next ==
  /\ sched.pc = "loop" /\ sched.i >= 1
  /\ \E ok \in BOOLEAN :
       LET k == sched.i + 1
           s == stepObj[k]
           parsedEndTime == Atoi(sched.lastEndTime)
           StartTime == Itoa(parsedEndTime + 500)
           startTimeMillis == Atoi(StartTime)
           stepDurationSeconds == Atoi(s.Duration)
           eTime == EndTimeOf(startTimeMillis, stepDurationSeconds)
       IN /\ stepObj' = [stepObj EXCEPT ![k] =
                           [s EXCEPT !.StepIndex = sched.i, !.StartTime = StartTime,
                                     !.EndTime = Itoa(eTime)]]
          /\ sched' = AfterIteration(ok, Len(stepObj))
          /\ CreateStep(k, ok)
  /\ UNCHANGED <<rev, dbEntities, gameVars, invVars, pc, call, lgame, ret, nextBin, now, archivesInRow>>

\* mutant: nil is returned in place of the slice
AddAllStepsToDb_Return_nil ==
  /\ sched.pc = "return"
  /\ sched' = [sched EXCEPT !.pc = "done", !.ret = "nil"]
  /\ UNCHANGED <<rev, dbEntities, gameVars, procVars, invVars, stepObj, dbStepDocs>>

\* return steps
AddAllStepsToDb_Return ==
  /\ sched.pc = "return"
  /\ sched' = [sched EXCEPT !.pc = "done", !.ret = "steps"]
  /\ UNCHANGED <<rev, dbEntities, gameVars, procVars, invVars, stepObj, dbStepDocs>>

NextSteps ==
  \/ AddAllStepsToDb_Index
  \/ AddAllStepsToDb_First
  \/ AddAllStepsToDb_Next
  \/ AddAllStepsToDb_Return

InitSteps ==
  Init /\ rev = "store" /\ dbCurrentStep = "s1" /\ dbGamers # EmptyNode /\ sched # NoSchedule

\* one call of AddAllStepsToDb on any step list and start time
SpecSteps == InitSteps /\ [][NextSteps]_vars

\* ------------------------------------------------------------ game status
\* mutant: the status is written although the call failed
StatusAfter_always(ok, old, new) == new

\* games/{id}/status after Update(gameId, {"status": g.Status}, "games")
StatusAfter(ok, old, new) == IF ok THEN new ELSE old

\* StartGame / EndGame: fetch the game, set g.Status, update "status" alone.
\* failAt: 0 no store call fails, 1 the fetch, 2 the update
SetGameStatus(op, status) ==
  /\ \E failAt \in 0..2 :
       /\ dbStatus' = StatusAfter(failAt = 0, dbStatus, status)
       /\ last' = [op |-> op, player |-> "", inv |-> "", group |-> "",
                   ret |-> IF failAt = 0 THEN "true" ELSE "error",
                   writes |-> IF failAt = 1 THEN <<>> ELSE <<PathGame("status")>>]
  /\ UNCHANGED <<rev, dbEntities, stepVars, procVars, dbCurrentStep, dbSteps, dbStepResults, obj,
                 dbInvitations, dbGroupIds, dbMembers, dbGamers, dbGamePlayers, dbInvited>>

StartGame == SetGameStatus("StartGame", "started")

EndGame == SetGameStatus("EndGame", "ended")

\* votes made one at a time on a game that is started and ended
NextStatus ==
  \/ StartGame
  \/ EndGame
  \/ \E p \in Procs : SeqVoteLock(p)
  \/ \E p \in Procs : VoteFetch(p)
  \/ \E p \in Procs : VotePersist(p)
  \/ \E p \in Procs : Return(p)

SpecStatus == InitGame /\ [][NextStatus]_vars

\* ----------------------------------------------------------- current step
\* steps/{bin}: the steps SetNextStep can look up; s1 is followed by s2, s2
\* is the last step.  No call of this part writes under steps/.
StepDocs ==
  ("s1" :> [Bin |-> "s1", NextStep |-> "s2"]) @@ ("s2" :> [Bin |-> "s2", NextStep |-> ""])

\* GetStepByBin(step): the step, or nil where steps/{step} holds none
GetStepByBin(step) ==
  IF step \in DOMAIN StepDocs THEN StepDocs[step] ELSE [Bin |-> "nil", NextStep |-> "nil"]

\* SetNextStep(gameId).  failAt: 0 no store call fails, 1 the game fetch,
\* 2 the step lookup, 3 the update.  GetStepByBin returns (nil, nil) where no
\* step is stored, and `currentStep.Bin` on it is a nil dereference.
SetNextStep ==
  /\ \E failAt \in 0..3 :
       LET currentStep == GetStepByBin(dbCurrentStep)
           panics == failAt \in {0, 3} /\ dbCurrentStep \notin DOMAIN StepDocs
       IN /\ dbCurrentStep' = IF failAt = 0 /\ ~panics THEN currentStep.Bin
                              ELSE dbCurrentStep
          /\ last' = [op |-> "SetNextStep", player |-> "", inv |-> "", group |-> "",
                      ret |-> IF panics THEN "panic" ELSE "void",
                      writes |-> IF failAt \in {0, 3} /\ ~panics
                                 THEN <<PathGame("current_step")>> ELSE <<>>,
                      failed |-> failAt]
  /\ UNCHANGED <<rev, dbEntities, stepVars, procVars, dbStatus, dbSteps, dbStepResults, obj,
                 dbInvitations, dbGroupIds, dbMembers, dbGamers, dbGamePlayers, dbInvited>>

\* a game that is started, advanced and ended
NextAdvance ==
  \/ SetNextStep
  \/ StartGame
  \/ EndGame

SpecAdvance == InitGame /\ [][NextAdvance]_vars

\* --------------------------------------------------------- generic dispatch
\* the entity-type tags each dispatcher has a case for
CreateTags == {"players", "games", "steps", "characters", "abilities"}
UpdateTags == {"players", "game_groups", "games", "gamers"}
DeleteTags == {"players", "game_groups", "games"}
Tags == CreateTags \cup UpdateTags \cup DeleteTags \cup {"widgets"}

\* the bin of the entity, or the b argument of Update
EntityBin == "e1"

\* CreateStep and CreateGame take the store lock
LockingTags == {"steps", "games"}

\* the reference each per-entity helper builds; UpdateGamersInGame builds
\* "games/" + b + "gamers"
HelperPath(kind, tag) ==
  IF kind = "Update" /\ tag = "gamers" THEN <<"games", EntityBin \o "gamers">>
  ELSE <<tag, EntityBin>>

\* mutant: no default case, every tag reaches a helper
Dispatch_noDefault(kind, tags, tag, ok) ==
  LET path == HelperPath(kind, tag)
  IN /\ last' = [op |-> kind, tag |-> tag, player |-> "", inv |-> "", group |-> "",
                 ret |-> IF ok THEN "nil" ELSE "error", writes |-> <<path>>]
     /\ dbEntities' = IF ~ok THEN dbEntities
                      ELSE IF kind = "Delete" THEN dbEntities \ {path}
                      ELSE dbEntities \cup {path}

\* the result of one dispatch: an unsupported tag returns the
\* "invalid data type" error from the default case
Dispatch(kind, tags, tag, ok) ==
  LET supported == tag \in tags
      path == HelperPath(kind, tag)
  IN /\ last' = [op |-> kind, tag |-> tag, player |-> "", inv |-> "", group |-> "",
                 ret |-> IF ~supported THEN "invalid" ELSE IF ok THEN "nil" ELSE "error",
                 writes |-> IF supported THEN <<path>> ELSE <<>>]
     /\ dbEntities' = IF ~supported \/ ~ok THEN dbEntities
                      ELSE IF kind = "Delete" THEN dbEntities \ {path}
                      ELSE dbEntities \cup {path}

\* Create(b, path); CreateStep and CreateGame Lock first and Unlock only
\* after a successful Set
Create(tag) ==
  /\ tag \in LockingTags => ~mu
  /\ \E ok \in BOOLEAN :
       /\ Dispatch("Create", CreateTags, tag, ok)
       /\ mu' = IF tag \in LockingTags /\ ~ok THEN TRUE ELSE mu
  /\ UNCHANGED <<rev, stepVars, gameVars, pc, call, lgame, ret, nextBin, now,
                 archivesInRow, obj, dbInvitations, dbGroupIds, dbMembers, dbGamers,
                 dbGamePlayers, dbInvited>>

\* Update(b, m, path)
Update(tag) ==
  /\ \E ok \in BOOLEAN : Dispatch("Update", UpdateTags, tag, ok)
  /\ UNCHANGED <<rev, stepVars, gameVars, procVars, obj, dbInvitations, dbGroupIds,
                 dbMembers, dbGamers, dbGamePlayers, dbInvited>>

\* Delete(b, dataType)
Delete(tag) ==
  /\ \E ok \in BOOLEAN : Dispatch("Delete", DeleteTags, tag, ok)
  /\ UNCHANGED <<rev, stepVars, gameVars, procVars, obj, dbInvitations, dbGroupIds,
                 dbMembers, dbGamers, dbGamePlayers, dbInvited>>

NextDispatch ==
  \E tag \in Tags :
    \/ Create(tag)
    \/ Update(tag)
    \/ Delete(tag)

InitDispatch == InitGame /\ rev = "part_000" /\ dbCurrentStep = "s1"

SpecDispatch == InitDispatch /\ [][NextDispatch]_vars

\* CreateStep, CreateGame and Vote calls in one process, one after another
NextLock ==
  \/ \E tag \in LockingTags : Create(tag)
  \/ \E p \in Procs : SeqVoteLock(p)
  \/ \E p \in Procs : VoteFetch(p)
  \/ \E p \in Procs : VotePersist(p)
  \/ \E p \in Procs : Return(p)

SpecLock == InitDispatch /\ [][NextLock]_vars

\* ------------------------------------- dispatchers of the 781-line revision
\* In that revision Update and Delete Lock the store mutex themselves
\* (defer Unlock) and every per-entity helper (createStep, updateGame,
\* deletePlayer, ...) Locks the same sync.Mutex again.

\* the tags Create has a case for in that revision
CreateTags_part_001 ==
  {"players", "game_groups", "games", "steps", "characters", "abilities"}

\* the tags of the dispatcher `kind` in that revision
TagsOf_part_001(kind) ==
  IF kind = "Create" THEN CreateTags_part_001
  ELSE IF kind = "Update" THEN UpdateTags
  ELSE DeleteTags

\* a dispatcher call in flight; held: the dispatcher has locked store.mu
DispatcherCall(kind, tag, held) == [op |-> kind, tag |-> tag, held |-> held]

\* Update / Delete: store.mu.Lock(); defer store.mu.Unlock()
DispatcherLock(p, kind, tag) ==
  /\ pc[p] = "idle"
  /\ mu = FALSE
  /\ mu' = TRUE
  /\ pc' = [pc EXCEPT ![p] = "dispatch_locked"]
  /\ call' = [call EXCEPT ![p] = DispatcherCall(kind, tag, TRUE)]
  /\ ret' = [ret EXCEPT ![p] = "none"]
  /\ UNCHANGED <<rev, dbEntities, stepVars, invVars, gameVars, lgame, nextBin, now,
                 archivesInRow>>

\* Create: no lock of its own, straight to the switch
Create_part_001(p, tag) ==
  /\ pc[p] = "idle"
  /\ pc' = [pc EXCEPT ![p] = "dispatch_locked"]
  /\ call' = [call EXCEPT ![p] = DispatcherCall("Create", tag, FALSE)]
  /\ ret' = [ret EXCEPT ![p] = "none"]
  /\ UNCHANGED <<rev, dbEntities, stepVars, invVars, gameVars, mu, lgame, nextBin, now,
                 archivesInRow>>

\* the switch: a supported tag calls its helper, which starts with
\* store.mu.Lock(); the default case returns the error and the deferred
\* Unlock of the dispatcher runs
DispatcherSwitch(p) ==
  /\ pc[p] = "dispatch_locked"
  /\ IF call[p].tag \in TagsOf_part_001(call[p].op)
     THEN /\ pc' = [pc EXCEPT ![p] = "helper"]
          /\ UNCHANGED <<mu, ret>>
     ELSE /\ pc' = [pc EXCEPT ![p] = "done"]
          /\ ret' = [ret EXCEPT ![p] = "invalid"]
          /\ mu' = IF call[p].held THEN FALSE ELSE mu
  /\ UNCHANGED <<rev, dbEntities, stepVars, invVars, gameVars, call, lgame, nextBin, now,
                 archivesInRow>>

\* the helper's store.mu.Lock(): sync.Mutex is not reentrant, the call
\* waits until the mutex is free whoever holds it
HelperLock(p) ==
  /\ pc[p] = "helper"
  /\ mu = FALSE
  /\ mu' = TRUE
  /\ pc' = [pc EXCEPT ![p] = "helper_locked"]
  /\ UNCHANGED <<rev, dbEntities, stepVars, invVars, gameVars, call, lgame, ret, nextBin,
                 now, archivesInRow>>

\* the helper's one Set / Update / Delete and its deferred Unlock; the
\* dispatcher returns what the helper returned
HelperWrite(p) ==
  /\ pc[p] = "helper_locked"
  /\ \E ok \in BOOLEAN :
       LET path == HelperPath(call[p].op, call[p].tag)
       IN /\ dbEntities' = IF ~ok THEN dbEntities
                           ELSE IF call[p].op = "Delete" THEN dbEntities \ {path}
                           ELSE dbEntities \cup {path}
          /\ ret' = [ret EXCEPT ![p] = IF ok THEN "nil" ELSE "error"]
  /\ mu' = FALSE
  /\ pc' = [pc EXCEPT ![p] = "done"]
  /\ UNCHANGED <<rev, stepVars, invVars, gameVars, call, lgame, nextBin, now,
                 archivesInRow>>

Init_part_001 ==
  /\ sched = NoSchedule /\ stepObj = <<>>
  /\ dbStepDocs = <<>>
  /\ dbEntities = {}
  /\ rev = "part_001"
  /\ obj = [pl \in Players |->
             [Bin |-> pl, Invitations |-> <<GroupInvitation, GameInvitation>>,
              GroupIds |-> <<>>]]
  /\ dbInvitations = [pl \in Players |-> ("i1" :> GroupInvitation) @@ ("i2" :> GameInvitation)]
  /\ dbGroupIds = [pl \in Players |-> <<>>]
  /\ dbMembers = [gr \in Groups |-> InitMembers(rev)]
  /\ dbGamers = Owner :> OwnerGamer
  /\ dbGamePlayers = EmptyNode
  /\ dbInvited = <<"p2", "p3">>
  /\ last = NoInvitationCall
  /\ dbCurrentStep = "s1"
  /\ dbStatus = "created"
  /\ dbSteps = [s \in StepBins |-> EmptyResultMap]
  /\ dbStepResults = EmptyResultMap
  /\ mu = FALSE
  /\ pc = [p \in Procs |-> "idle"]
  /\ call = [p \in Procs |-> NoCall]
  /\ lgame = [p \in Procs |-> NoGame]
  /\ ret = [p \in Procs |-> "none"]
  /\ nextBin = 1
  /\ now = 0
  /\ archivesInRow = 0

Next_part_001 ==
  \/ \E p \in Procs, tag \in Tags : Create_part_001(p, tag)
  \/ \E p \in Procs, kind \in {"Update", "Delete"}, tag \in Tags : DispatcherLock(p, kind, tag)
  \/ \E p \in Procs : DispatcherSwitch(p)
  \/ \E p \in Procs : HelperLock(p)
  \/ \E p \in Procs : HelperWrite(p)
  \/ \E p \in Procs : Return(p)

Spec_part_001 == Init_part_001 /\ [][Next_part_001]_vars

\* ------------------------------------------------------- moving to a step
\* Update(GameBin, {"current_step": s}, "games") -> UpdateGame: the partial
\* update through which a caller moves the game to another step
UpdateGame_current_step(s) ==
  /\ \A p \in Procs : pc[p] = "idle"
  /\ s # dbCurrentStep
  /\ \E ok \in BOOLEAN : dbCurrentStep' = IF ok THEN s ELSE dbCurrentStep
  /\ UNCHANGED <<rev, dbEntities, stepVars, invVars, procVars, dbStatus, dbSteps,
                 dbStepResults>>

\* Vote and ArchiveStepResults calls one at a time on a game that is moved
\* from step to step in between
NextHistory ==
  \/ \E p \in Procs : SeqVoteLock(p)
  \/ \E p \in Procs : VoteFetch(p)
  \/ \E p \in Procs : VotePersist(p)
  \/ \E p \in Procs : SeqArchiveFetch(p)
  \/ \E p \in Procs : ArchiveUpdate(p)
  \/ \E p \in Procs : Return(p)
  \/ \E s \in StepBins : UpdateGame_current_step(s)

InitHistory == InitGame /\ dbCurrentStep = "s1"

SpecHistory == InitHistory /\ [][NextHistory]_vars

\* ------------------------------------------------------------ properties

Range(q) == {q[i] : i \in DOMAIN q}

IsPrefix(a, b) == Len(a) <= Len(b) /\ SubSeq(b, 1, Len(a)) = a

\* this step is handler p's Vote returning true
VoteSucceeds(p) ==
  pc[p] = "vote_fetched" /\ pc'[p] = "done" /\ ret'[p] = "true"

\* this step is handler p's Vote returning (false or true)
VoteReturns(p) ==
  pc[p] \in {"vote_locked", "vote_fetched"} /\ pc'[p] = "done"

\* this step is handler p's ArchiveStepResults returning nil
ArchiveSucceeds(p) ==
  pc[p] = "archive_fetched" /\ pc'[p] = "done" /\ ret'[p] = "nil"

\* C1: a Vote that returns true leaves, for gamer vote.Source under the
\* current step, the list stored before the call followed by exactly one new
\* Result with stepBin = vote.StepBin, gameBin = the game's bin and
\* gamerId = vote.Source; nothing is deduplicated.
C1_VoteAppends ==
  [][\A p \in Procs : VoteSucceeds(p) =>
       LET v == call[p].vote
           old == dbSteps[dbCurrentStep][v.Source]
           new == dbSteps'[dbCurrentStep][v.Source]
       IN /\ Len(new) = Len(old) + 1
          /\ SubSeq(new, 1, Len(old)) = old
          /\ new[Len(new)].StepBin = v.StepBin
          /\ new[Len(new)].GameBin = GameBin
          /\ new[Len(new)].GamerId = v.Source
          /\ new[Len(new)] \notin Range(old)]_vars

\* C1 witness: a Vote has returned true and the gamer's list holds two
\* entries made from identical votes
C1_Witness ==
  \E p \in Procs :
    /\ pc[p] = "done" /\ call[p].op = "Vote" /\ ret[p] = "true"
    /\ LET l == dbSteps[dbCurrentStep][call[p].vote.Source]
       IN Len(l) = 2 /\ l[1].Vote = l[2].Vote /\ l[1] # l[2]

\* C2: at most one Vote holds the lock between Lock and its persist, and when
\* Votes have returned true each one's Result is in the stored list it was
\* appended to (no Vote overwrote another's).
C2_VotesSerialized ==
  /\ Cardinality({p \in Procs : pc[p] \in {"vote_locked", "vote_fetched"}}) <= 1
  /\ \A p \in Procs :
       (pc[p] = "done" /\ call[p].op = "Vote" /\ ret[p] = "true") =>
         LET cs == lgame[p].CurrentStep
             g == call[p].vote.Source
             mine == lgame[p].Steps[cs][g]
         IN mine[Len(mine)] \in Range(dbSteps[cs][g])

\* C2 witness: two handlers voted for the same gamer under the same step and
\* both have returned true
C2_Witness ==
  \E p, q \in Procs :
    /\ p # q
    /\ pc[p] = "done" /\ call[p].op = "Vote" /\ ret[p] = "true"
    /\ pc[q] = "done" /\ call[q].op = "Vote" /\ ret[q] = "true"
    /\ call[p].vote.Source = call[q].vote.Source
    /\ Len(dbSteps[dbCurrentStep][call[p].vote.Source]) = 2

\* C3: a Vote whose fetch fails, or whose persist fails, returns false and
\* leaves the stored game as it was; it returns true only with the new Result
\* written to the store.
C3_VoteFailureReported ==
  [][\A p \in Procs : VoteReturns(p) =>
       /\ ret'[p] \in {"true", "false"}
       /\ pc[p] = "vote_locked" => ret'[p] = "false"
       /\ ret'[p] = "false" => UNCHANGED gameVars
       /\ gameVars' = gameVars => ret'[p] = "false"
       /\ ret'[p] = "true" =>
            LET cs == lgame[p].CurrentStep
                g == call[p].vote.Source
                mine == lgame'[p].Steps[cs][g]
            IN /\ mine[Len(mine)] \in Range(dbSteps'[cs][g])
               /\ mine[Len(mine)] \notin Range(dbSteps[cs][g])]_vars

\* C3 witness: a Vote returned false after a successful fetch (the persist
\* failed) on a game that already held a result
C3_Witness ==
  \E p \in Procs :
    /\ pc[p] = "done" /\ call[p].op = "Vote" /\ ret[p] = "false"
    /\ lgame[p].fetched
    /\ \E s \in StepBins, g \in Gamers : dbSteps[s][g] # <<>>

\* C4: a Vote that returns true changes only steps/{currentStep}/result/
\* {vote.Source}: other gamers' lists, other steps, stepResults, status and
\* currentStep are as before.
C4_VoteWritesOnePath ==
  [][\A p \in Procs : VoteSucceeds(p) =>
       /\ dbStepResults' = dbStepResults
       /\ dbStatus' = dbStatus
       /\ dbCurrentStep' = dbCurrentStep
       /\ \A s \in StepBins, g \in Gamers :
            (s # dbCurrentStep \/ g # call[p].vote.Source) =>
              dbSteps'[s][g] = dbSteps[s][g]]_vars

\* C4 witness: a Vote has returned true while another gamer has a result
\* under the same step
C4_Witness ==
  \E p \in Procs :
    /\ pc[p] = "done" /\ call[p].op = "Vote" /\ ret[p] = "true"
    /\ \E g \in Gamers \ {call[p].vote.Source} : dbSteps[dbCurrentStep][g] # <<>>

\* C5: after a successful ArchiveStepResults, StepResults[g] is what it held
\* before followed by every Result that was in a step's result map for g.
C5_ArchiveMovesResults ==
  [][\A p \in Procs : ArchiveSucceeds(p) =>
       \E order \in StepOrders : \A g \in Gamers :
         dbStepResults'[g] = dbStepResults[g] \o StepResultsFrom(dbSteps, order, g, 1)]_vars

\* C6: after a successful ArchiveStepResults no step holds a transient
\* result, and no result has left its step without being in StepResults.
C6_ArchiveClearsAndKeeps ==
  [][\A p \in Procs : ArchiveSucceeds(p) =>
       /\ \A s \in StepBins, g \in Gamers : dbSteps'[s][g] = <<>>
       /\ \A s \in StepBins, g \in Gamers :
            Range(dbSteps[s][g]) \subseteq Range(dbStepResults'[g])]_vars

\* C7: across any sequence of Vote and ArchiveStepResults calls, StepResults[g]
\* at a later state has the earlier StepResults[g] as a prefix.
C7_ArchiveAppendOnly ==
  [][\A g \in Gamers : IsPrefix(dbStepResults[g], dbStepResults'[g])]_vars

\* C7 witness: an ArchiveStepResults returned nil having appended to a
\* gamer's history that already held an archived entry
C7_Witness ==
  \E p \in Procs, g \in Gamers :
    /\ pc[p] = "done" /\ call[p].op = "ArchiveStepResults" /\ ret[p] = "nil"
    /\ lgame[p].StepResults[g] # <<>>
    /\ Len(dbStepResults[g]) > Len(lgame[p].StepResults[g])

\* C8: an ArchiveStepResults that follows a successful ArchiveStepResults with
\* no Vote call in between leaves StepResults as the first call left it.
C8_ArchiveIdempotent ==
  [][\A p \in Procs : (ArchiveSucceeds(p) /\ archivesInRow >= 1) =>
       dbStepResults' = dbStepResults]_vars

\* C8 witness: two ArchiveStepResults in a row have returned nil on a game
\* with archived results
C8_Witness ==
  \E p \in Procs, g \in Gamers :
    /\ pc[p] = "done" /\ call[p].op = "ArchiveStepResults" /\ ret[p] = "nil"
    /\ archivesInRow = 2
    /\ dbStepResults[g] # <<>>

\* C9: whatever AcceptGroupInvitation, DeclineGameGroupInvitation,
\* AcceptGameInvitation and DeclineGameInvitation calls were made, no
\* invitation of a player object and no stored invitation has accepted and
\* declined both true.
C9_AcceptedDeclinedExclusive ==
  \A pl \in Players :
    /\ \A i \in DOMAIN obj[pl].Invitations :
         ~(obj[pl].Invitations[i].Accepted /\ obj[pl].Invitations[i].Declined)
    /\ \A k \in DOMAIN dbInvitations[pl] :
         ~(dbInvitations[pl][k].Accepted /\ dbInvitations[pl][k].Declined)

\* C9 witness: an invitation that AcceptGroupInvitation accepted (its stored
\* record says so) has then been declined in the player object by
\* DeclineGameGroupInvitation
C9_Witness ==
  \E pl \in Players :
    /\ last.op = "DeclineGameGroupInvitation" /\ last.player = pl
    /\ \E i \in DOMAIN obj[pl].Invitations :
         /\ obj[pl].Invitations[i].Bin = last.inv
         /\ obj[pl].Invitations[i].Declined
         /\ ~obj[pl].Invitations[i].Accepted
    /\ last.inv \in DOMAIN dbInvitations[pl]
    /\ dbInvitations[pl][last.inv].Accepted
    /\ dbInvitations[pl][last.inv].Status = "received"

\* this step is AcceptGroupInvitation(pl, id, gr) called on an invitation
\* that is already accepted or already declined
AcceptOnTerminal(pl, id, gr) ==
  /\ last'.op = "AcceptGroupInvitation"
  /\ last'.player = pl /\ last'.inv = id /\ last'.group = gr
  /\ \E i \in DOMAIN obj[pl].Invitations :
       /\ i = FindInvitation(obj[pl].Invitations, id)
       /\ obj[pl].Invitations[i].Accepted \/ obj[pl].Invitations[i].Declined

\* C10: AcceptGroupInvitation on an invitation already accepted or already
\* declined returns (false, error), leaves the invitation, the player's
\* groupIds and the group's members as they were, and writes nothing.
C10_AcceptTerminalRejected ==
  [][\A pl \in Players, id \in InvIds, gr \in Groups :
       (AcceptOnTerminal(pl, id, gr) /\ last' # last) =>
         /\ last'.ret = "error"
         /\ last'.writes = <<>>
         /\ obj' = obj
         /\ UNCHANGED <<dbInvitations, dbGroupIds, dbMembers>>]_vars

\* C10 witness: AcceptGroupInvitation has just been refused on an invitation
\* that an earlier call declined
C10_Witness ==
  /\ last.op = "AcceptGroupInvitation" /\ last.ret = "error" /\ last.writes = <<>>
  /\ \E pl \in Players : \E i \in DOMAIN obj[pl].Invitations :
       /\ last.player = pl
       /\ obj[pl].Invitations[i].Bin = last.inv
       /\ obj[pl].Invitations[i].Declined

\* this step is DeclineGameGroupInvitation(pl, id, gr) called on an invitation
\* that is already accepted or already declined
DeclineOnTerminal(pl, id, gr) ==
  /\ last'.op = "DeclineGameGroupInvitation"
  /\ last'.player = pl /\ last'.inv = id /\ last'.group = gr
  /\ \E i \in DOMAIN obj[pl].Invitations :
       /\ i = FindInvitation(obj[pl].Invitations, id)
       /\ obj[pl].Invitations[i].Accepted \/ obj[pl].Invitations[i].Declined

\* C11: DeclineGameGroupInvitation on an invitation already accepted or
\* already declined does not overwrite it: the player's invitations stay as
\* they were, so an invitation with accepted = true never later has
\* accepted = false or declined = true.
C11_DeclineTerminalRejected ==
  [][/\ \A pl \in Players, id \in InvIds, gr \in Groups :
          DeclineOnTerminal(pl, id, gr) =>
            obj'[pl].Invitations = obj[pl].Invitations
     /\ \A pl \in Players : \A i \in DOMAIN obj[pl].Invitations :
          obj[pl].Invitations[i].Accepted =>
            /\ obj'[pl].Invitations[i].Accepted
            /\ ~obj'[pl].Invitations[i].Declined]_vars

\* this step is AcceptGroupInvitation(pl, id, gr) returning (true, nil) on a
\* pending invitation found at position i of the player's list
AcceptPendingSucceeds(pl, id, gr, i) ==
  /\ last'.op = "AcceptGroupInvitation" /\ last'.ret = "true"
  /\ last'.player = pl /\ last'.inv = id /\ last'.group = gr
  /\ i = FindInvitation(obj[pl].Invitations, id)
  /\ ~obj[pl].Invitations[i].Accepted /\ ~obj[pl].Invitations[i].Declined

\* C12: after a successful AcceptGroupInvitation on a pending invitation the
\* invitation has accepted = true, declined = false and status "accepted",
\* the stored record players/{bin}/invitations/{invitationId} has
\* accepted = true and declined = false, and every other invitation of the
\* player, in the object and in the store, is unchanged.
C12_AcceptSetsAccepted ==
  [][\A pl \in Players, id \in InvIds, gr \in Groups :
       \A i \in DOMAIN obj[pl].Invitations :
         AcceptPendingSucceeds(pl, id, gr, i) =>
           /\ obj'[pl].Invitations[i] =
                [obj[pl].Invitations[i] EXCEPT !.Accepted = TRUE, !.Status = "accepted"]
           /\ \A j \in DOMAIN obj[pl].Invitations \ {i} :
                obj'[pl].Invitations[j] = obj[pl].Invitations[j]
           /\ id \in DOMAIN dbInvitations'[pl]
           /\ dbInvitations'[pl][id].Accepted
           /\ ~dbInvitations'[pl][id].Declined
           /\ \A k \in DOMAIN dbInvitations[pl] \ {id} :
                k \in DOMAIN dbInvitations'[pl] /\ dbInvitations'[pl][k] = dbInvitations[pl][k]]_vars

\* no element occurs twice in q
NoDuplicate(q) == \A i, j \in DOMAIN q : q[i] = q[j] => i = j

\* C13: a player's groupIds, in the object and in the store, never holds a
\* groupId twice; after an AcceptGroupInvitation for group g that returned
\* (true, nil), g is in the list and players/{bin}/group_ids equals the
\* in-memory list.
C13_GroupIdsNoDuplicate ==
  /\ \A pl \in Players : NoDuplicate(obj[pl].GroupIds) /\ NoDuplicate(dbGroupIds[pl])
  /\ (last.op = "AcceptGroupInvitation" /\ last.ret = "true") =>
       /\ last.group \in Range(obj[last.player].GroupIds)
       /\ dbGroupIds[last.player] = obj[last.player].GroupIds

\* C13 witness: a player holding both groups has accepted into a group that was
\* already in the list, and the call succeeded
C13_Witness ==
  /\ last.op = "AcceptGroupInvitation" /\ last.ret = "true" /\ last.inv = UnknownInv
  /\ obj[last.player].GroupIds = <<"gr2", "gr1">>
  /\ last.group = "gr2"
  /\ dbGroupIds[last.player] = <<"gr2", "gr1">>

\* C14: after an AcceptGroupInvitation(p, invitationId, groupId) that returned
\* (true, nil) the store holds the player at
\* game_groups/{groupId}/members/{p.bin}, and every other entry of the
\* group's members is as it was before the call.
C14_MemberKeyedByPlayerBin ==
  [][\A pl \in Players, gr \in Groups :
       (/\ last'.op = "AcceptGroupInvitation" /\ last'.ret = "true"
        /\ last'.player = pl /\ last'.group = gr) =>
         /\ pl \in DOMAIN dbMembers'[gr]
         /\ dbMembers'[gr][pl] = pl
         /\ \A k \in DOMAIN dbMembers[gr] \ {pl} :
              k \in DOMAIN dbMembers'[gr] /\ dbMembers'[gr][k] = dbMembers[gr][k]]_vars

\* the number of entries of a members node that hold player q
MemberCount(node, q) == Cardinality({k \in DOMAIN node : node[k] = q})

\* this step is a call that adds player q to group gr and reports no failure
JoinSucceeds(q, gr) ==
  /\ last'.player = q /\ last'.group = gr
  /\ \/ last'.op = "AcceptGroupInvitation" /\ last'.ret = "true"
     \/ /\ last'.op = "AddPlayerToGroup" /\ last'.ret = "void"
        /\ last'.writes # <<>> /\ dbMembers' # dbMembers

\* C15: in any sequence of AcceptGroupInvitation (and AddPlayerToGroup) calls
\* by several players into one group, a player whose call succeeded is in the
\* stored member set exactly once afterwards, and every player that was a
\* member exactly once before a call is a member exactly once after it: no
\* accept removes another member and no add of a present player makes a
\* second entry.
C15_MembersEachOnce ==
  [][\A gr \in Groups, q \in Players :
       /\ JoinSucceeds(q, gr) => MemberCount(dbMembers'[gr], q) = 1
       /\ MemberCount(dbMembers[gr], q) = 1 => MemberCount(dbMembers'[gr], q) = 1]_vars

\* this step is DeclineGameGroupInvitation(pl, id, gr) with every store call
\* succeeding, on a pending invitation found at position i of the player's list
DeclinePendingSucceeds(pl, id, gr, i) ==
  /\ last'.op = "DeclineGameGroupInvitation" /\ last'.failed = 0
  /\ last'.player = pl /\ last'.inv = id /\ last'.group = gr
  /\ i = FindInvitation(obj[pl].Invitations, id)
  /\ ~obj[pl].Invitations[i].Accepted /\ ~obj[pl].Invitations[i].Declined

\* C16: after DeclineGameGroupInvitation on a pending invitation with every
\* store call succeeding, the invitation is stored with declined = true,
\* accepted = false and status "declined", players/{bin}/invitations holds the
\* player's whole list, and no entry of the group's stored members is the
\* player.
C16_DeclineStoresAndRemoves ==
  [][\A pl \in Players, id \in InvIds, gr \in Groups :
       \A i \in DOMAIN obj[pl].Invitations :
         DeclinePendingSucceeds(pl, id, gr, i) =>
           /\ obj'[pl].Invitations[i] =
                [obj[pl].Invitations[i] EXCEPT !.Declined = TRUE, !.Accepted = FALSE,
                                               !.Status = "declined"]
           /\ dbInvitations'[pl] = ListNode(obj'[pl].Invitations)
           /\ MemberCount(dbMembers'[gr], pl) = 0]_vars

\* C17: after an AcceptGameInvitation(playerId, invitation) that returned
\* (true, nil), games/{invitation.GameId}/gamers has an entry keyed by
\* playerId with alive = true, the default character and that game's id.
C17_AcceptGameAddsGamer ==
  (last.op = "AcceptGameInvitation" /\ last.ret = "true") =>
    /\ last.player \in DOMAIN dbGamers
    /\ dbGamers[last.player].IsAlive
    /\ dbGamers[last.player].CharacterId = "3"
    /\ dbGamers[last.player].GameId = GameBin

\* C18: after a DeclineGameInvitation(playerId, invitation) that returned
\* (true, nil), games/{invitation.GameId}/invited is the previous list without
\* its first entry equal to playerId, the other entries in their previous
\* order; a list that did not hold playerId is unchanged.
C18_DeclineGameCutsInvited ==
  [][\A pl \in Players :
       (last'.op = "DeclineGameInvitation" /\ last'.ret = "true" /\ last'.player = pl) =>
         IF pl \in Range(dbInvited)
         THEN \E i \in DOMAIN dbInvited :
                /\ dbInvited[i] = pl
                /\ \A j \in 1..(i - 1) : dbInvited[j] # pl
                /\ dbInvited' = SubSeq(dbInvited, 1, i - 1) \o
                                SubSeq(dbInvited, i + 1, Len(dbInvited))
         ELSE dbInvited' = dbInvited]_vars

\* the stored invitations of player pl hold invitation id as accepted or declined
StoredTerminal(pl, id) ==
  \E k \in DOMAIN dbInvitations[pl] :
    /\ dbInvitations[pl][k].Bin = id
    /\ dbInvitations[pl][k].Accepted \/ dbInvitations[pl][k].Declined

\* C19: AcceptGameInvitation or DeclineGameInvitation on a game invitation
\* that the player's stored list already holds as accepted or declined
\* returns an error and leaves the stored invitations as they were.
C19_GameTransitionsTerminal ==
  [][\A pl \in Players, id \in InvIds :
       (/\ last'.op \in {"AcceptGameInvitation", "DeclineGameInvitation"}
        /\ last'.player = pl /\ last'.inv = id
        /\ StoredTerminal(pl, id)) =>
         /\ last'.ret = "error"
         /\ dbInvitations'[pl] = dbInvitations[pl]]_vars

\* C20: for a list of N >= 1 steps with durations d_0..d_{N-1} (seconds) and
\* start time T (milliseconds), every step AddAllStepsToDb has gone through
\* has endTime = startTime + duration*1000 + 500, step 0 has startTime = T and
\* step i >= 1 has startTime = step i-1's endTime + 500; durations [30, 45]
\* and T = 1000 give ("1000", "31500") and ("32000", "77500").
C20_StepSchedule ==
  /\ \A k \in 1..sched.i :
       /\ k = 1 => stepObj[k].StartTime = sched.startTime
       /\ Atoi(stepObj[k].EndTime) =
            Atoi(stepObj[k].StartTime) + Atoi(stepObj[k].Duration) * 1000 + 500
       /\ k > 1 => Atoi(stepObj[k].StartTime) = Atoi(stepObj[k - 1].EndTime) + 500
  /\ (/\ sched.i = 2 /\ Len(stepObj) = 2
      /\ sched.startTime = <<"1", "0", "0", "0">>
      /\ stepObj[1].Duration = <<"3", "0">> /\ stepObj[2].Duration = <<"4", "5">>) =>
       /\ stepObj[1].StartTime = <<"1", "0", "0", "0">>
       /\ stepObj[1].EndTime = <<"3", "1", "5", "0", "0">>
       /\ stepObj[2].StartTime = <<"3", "2", "0", "0", "0">>
       /\ stepObj[2].EndTime = <<"7", "7", "5", "0", "0">>

\* C21: AddAllStepsToDb on an empty step list returns the empty list and
\* makes no store write: no step is stored, the lock is never taken and the
\* call ends by returning its slice, which has no element.
C21_EmptyListNoOp ==
  (sched.pc # "none" /\ Len(stepObj) = 0) =>
    /\ dbStepDocs = <<>>
    /\ ~mu
    /\ sched.steps = <<>>
    /\ sched.pc = "done" => sched.ret = "steps"

\* C21 witness: AddAllStepsToDb has returned from a call with no step
C21_Witness ==
  /\ sched.pc = "done" /\ Len(stepObj) = 0
  /\ sched.ret = "steps" /\ sched.steps = <<>>
  /\ sched.startTime = <<"1", "0", "0", "0">>

\* C22: AddAllStepsToDb stores the steps one by one in list order: the stored
\* steps are always the first steps of the list, as scheduled.  When storing
\* step k fails the call returns nil at once, with steps 0..k-1 still stored
\* and no later step stored; when it returns the list every step is stored.
C22_PersistInOrderNoRollback ==
  /\ \E n \in 0..sched.i : DOMAIN dbStepDocs = 1..n
  /\ \A k \in DOMAIN dbStepDocs : dbStepDocs[k] = stepObj[k]
  /\ sched.ret = "nil" =>
       /\ sched.pc = "done" /\ sched.i >= 1
       /\ DOMAIN dbStepDocs = 1..(sched.i - 1)
  /\ sched.ret = "steps" => DOMAIN dbStepDocs = 1..Len(stepObj)

\* C22 witness: storing the second of three steps failed; the first is stored
C22_Witness ==
  /\ sched.pc = "done" /\ sched.ret = "nil"
  /\ Len(stepObj) = 3 /\ sched.i = 2
  /\ DOMAIN dbStepDocs = {1}

\* this step is a StartGame or EndGame call
StatusCall(op) == last'.op = op /\ UNCHANGED procVars

\* the fields of the stored game other than its status are as before
GameFrame ==
  UNCHANGED <<dbCurrentStep, dbSteps, dbStepResults, dbGamers, dbGamePlayers, dbInvited>>

\* C23: a StartGame that returns (true, nil) leaves the stored status
\* "started", an EndGame "ended"; a call whose fetch or update failed returns
\* (false, error) with the stored status as before; no call changes another
\* field of the stored game.
C23_StatusOnly ==
  [][/\ StatusCall("StartGame") =>
          /\ GameFrame
          /\ last'.ret = "true" => dbStatus' = "started"
          /\ last'.ret # "true" => last'.ret = "error" /\ dbStatus' = dbStatus
     /\ StatusCall("EndGame") =>
          /\ GameFrame
          /\ last'.ret = "true" => dbStatus' = "ended"
          /\ last'.ret # "true" => last'.ret = "error" /\ dbStatus' = dbStatus]_vars

\* C23 witness: EndGame has succeeded on a game that holds a vote
C23_Witness ==
  /\ last.op = "EndGame" /\ last.ret = "true" /\ dbStatus = "ended"
  /\ \E s \in StepBins, g \in Gamers : dbSteps[s][g] # <<>>

\* C24: when the game's current step exists and its nextStep names an existing
\* step, a SetNextStep whose store calls all succeed leaves the stored
\* currentStep equal to the bin of that next step, not the step that was
\* current before.
C24_SetNextStepAdvances ==
  [][(/\ last'.op = "SetNextStep" /\ last'.failed = 0
      /\ dbCurrentStep \in DOMAIN StepDocs
      /\ StepDocs[dbCurrentStep].NextStep \in DOMAIN StepDocs) =>
        /\ dbCurrentStep' = StepDocs[StepDocs[dbCurrentStep].NextStep].Bin
        /\ dbCurrentStep' # dbCurrentStep]_vars

\* C25: when the step lookup of SetNextStep fails, by a store error or because
\* no step is stored at the looked-up bin, SetNextStep returns normally and
\* the stored currentStep is as before.
C25_LookupFailureSilent ==
  [][(/\ last'.op = "SetNextStep" /\ last'.failed # 1
      /\ last'.failed = 2 \/ dbCurrentStep \notin DOMAIN StepDocs) =>
        /\ last'.ret = "void"
        /\ dbCurrentStep' = dbCurrentStep]_vars

\* C26: an AcceptGroupInvitation in which a store operation failed, the
\* update of the invitation's accepted / declined fields, the update of
\* groupIds, the fetch of the group or the insert into the members, has
\* returned (false, error), never (true, nil).
C26_NoFailureSwallowed ==
  (last.op = "AcceptGroupInvitation" /\ (last.invFailed \/ last.failed # 0)) =>
    last.ret = "error"

\* the last call was an AcceptGroupInvitation that marked a pending invitation
\* accepted and then returned an error because a later store call failed
AcceptPartlyApplied ==
  /\ last.op = "AcceptGroupInvitation" /\ last.ret = "error"
  /\ last.failed \in 1..3
  /\ last.writes # <<>> /\ last.writes[1] = PathInvitation(last.player, last.inv)

\* C27: when AcceptGroupInvitation returned an error after marking the
\* invitation (groupIds update, group fetch or member insert failed), the same
\* call made again with no store call failing returns (true, nil) and leaves
\* the player in the group's members and the group in the player's groupIds.
C27_RetryCompletes ==
  [][(/\ AcceptPartlyApplied
      /\ last'.op = "AcceptGroupInvitation"
      /\ last'.player = last.player /\ last'.inv = last.inv /\ last'.group = last.group
      /\ last'.failed = 0 /\ ~last'.invFailed) =>
        /\ last'.ret = "true"
        /\ MemberCount(dbMembers'[last'.group], last'.player) >= 1
        /\ last'.group \in Range(dbGroupIds'[last'.player])]_vars

\* handler p has fetched the game and not yet written it back
InFetchThenWrite(p) == pc[p] \in {"vote_fetched", "archive_fetched"}

\* C28: the lock serializes the fetch-then-write sections: while a Vote is
\* between its fetch and its persist no other call writes the stored game,
\* and no two handlers are between their fetch and their write at once.
C28_WritesSerialized ==
  [][/\ \A p \in Procs :
          (pc[p] = "vote_fetched" /\ pc'[p] = "vote_fetched") => UNCHANGED gameVars
     /\ \A p, q \in Procs :
          (p # q /\ InFetchThenWrite(p)) => ~InFetchThenWrite(q)]_vars

\* the tags dispatcher `kind` supports, as its switch lists them
SupportedTags(kind) ==
  IF kind = "Create" THEN {"players", "games", "steps", "characters", "abilities"}
  ELSE IF kind = "Update" THEN {"players", "game_groups", "games", "gamers"}
  ELSE {"players", "game_groups", "games"}

\* the collection the entities of a type are stored in
CollectionOf(tag) == IF tag = "gamers" THEN "games" ELSE tag

C30_LockReleased ==
  mu => \E p \in Procs : pc[p] \in {"vote_locked", "vote_fetched"}


\* C31: in the revision whose dispatchers take the lock, no Update or Delete
\* call with a supported tag is ever at its helper's store.mu.Lock() while
\* the lock is held by that same call (so the call goes on and returns)
C31_DispatcherNeverWaitsOnItself ==
  \A p \in Procs :
    ~(pc[p] = "helper" /\ call[p].op \in {"Update", "Delete"} /\ call[p].held /\ mu)


\* the time stamps of a result list never go down
TimeOrdered(q) ==
  \A i, j \in DOMAIN q : i < j => q[i].TimeStamp <= q[j].TimeStamp

\* C32: in every reachable state each gamer's list under each step and the
\* gamer's archived list in StepResults are in non-decreasing time-stamp
\* order
C32_HistoryTimeOrdered ==
  \A g \in Gamers :
    /\ TimeOrdered(dbStepResults[g])
    /\ \A s \in StepBins : TimeOrdered(dbSteps[s][g])


\* handler p's Vote has returned true and p has not started another call
VoteReturnedTrue(p) ==
  pc[p] = "done" /\ call[p].op = "Vote" /\ ret[p] = "true"

\* the Result that handler p's Vote appended
VotedResult(p) ==
  LET l == lgame[p].Steps[lgame[p].CurrentStep][call[p].vote.Source]
  IN l[Len(l)]

\* no call is running
AllReturned == \A q \in Procs : pc[q] \in {"idle", "done", "panic"}

\* the Results the stored game holds under its steps
TransientResults == UNION {Range(dbSteps[s][g]) : s \in StepBins, g \in Gamers}

\* the Results the stored game holds in StepResults
ArchivedResults == UNION {Range(dbStepResults[g]) : g \in Gamers}

\* C33: once all calls have returned, the Result of every Vote that returned
\* true is in a step's result map or in StepResults, whatever the
\* interleaving of the Vote and ArchiveStepResults calls was
C33_NoVoteLost ==
  \A p \in Procs :
    (VoteReturnedTrue(p) /\ AllReturned) =>
      VotedResult(p) \in TransientResults \cup ArchivedResults


\* C34: each Result bin occurs at most once in the stored StepResults, and
\* no Result is at the same time in StepResults and in a step's result map,
\* whatever the interleaving of Votes and ArchiveStepResults calls was
C34_NoVoteArchivedTwice ==
  /\ \A g \in Gamers :
       \A i, j \in DOMAIN dbStepResults[g] :
         i # j => dbStepResults[g][i].Bin # dbStepResults[g][j].Bin
  /\ {r.Bin : r \in TransientResults} \cap {r.Bin : r \in ArchivedResults} = {}


\* this step is an AcceptGroupInvitation whose invitationId matches none of
\* the player's invitations
AcceptUnknown ==
  /\ last'.op = "AcceptGroupInvitation"
  /\ UNCHANGED procVars
  /\ FindInvitation(obj[last'.player].Invitations, last'.inv) = 0

\* C35: AcceptGroupInvitation with an invitationId that matches no invitation
\* of the player adds nothing to groupIds or to the members and performs no
\* write
C35_UnknownInvitationNoEffect ==
  [][AcceptUnknown =>
       /\ last'.writes = <<>>
       /\ UNCHANGED <<obj, dbGroupIds, dbMembers>>]_vars


\* the two sides of membership name the same pairs: g is in the stored
\* groupIds of p exactly when p is one of the stored members of g
GroupSidesAgree ==
  \A p \in Players, g \in Groups :
    (g \in Range(dbGroupIds[p])) <=> (\E k \in DOMAIN dbMembers[g] : dbMembers[g][k] = p)

\* this step is an AcceptGroupInvitation or a DeclineGameGroupInvitation all
\* of whose store calls succeeded
GroupCallAllSucceed ==
  /\ last'.op \in {"AcceptGroupInvitation", "DeclineGameGroupInvitation"}
  /\ UNCHANGED procVars
  /\ last'.failed = 0
  /\ last'.op = "AcceptGroupInvitation" => ~last'.invFailed

\* player p is on a side of the membership of group g
OnSomeSide(p, g) ==
  \/ g \in Range(dbGroupIds[p])
  \/ \E k \in DOMAIN dbMembers[g] : dbMembers[g][k] = p

\* C36: a group call whose store calls all succeed keeps the two sides of
\* membership in agreement, and a decline by a player who is on both sides
\* (after an accept) leaves the player on neither
C36_GroupSidesAgree ==
  [][(GroupSidesAgree /\ GroupCallAllSucceed) =>
       /\ GroupSidesAgree'
       /\ \A p \in Players, g \in Groups :
            (/\ last'.op = "DeclineGameGroupInvitation"
             /\ last'.player = p /\ last'.group = g
             /\ OnSomeSide(p, g)) => ~OnSomeSide(p, g)']_vars


\* this step is an AcceptGameInvitation or DeclineGameInvitation of player pl
\* that returned (true, nil)
GameInvitationSucceeds(pl) ==
  /\ last'.op \in {"AcceptGameInvitation", "DeclineGameInvitation"}
  /\ UNCHANGED procVars
  /\ last'.ret = "true"
  /\ last'.player = pl

\* the stored invitation records of a player other than the one with bin id
OtherInvitations(node, id) ==
  {node[k] : k \in {j \in DOMAIN node : node[j].Bin # id}}

\* C37: a successful AcceptGameInvitation or DeclineGameInvitation changes
\* the named invitation only: every other stored invitation of the player
\* is still stored, unchanged
C37_OtherInvitationsKept ==
  [][\A pl \in Players :
       GameInvitationSucceeds(pl) =>
         \A r \in OtherInvitations(dbInvitations[pl], last'.inv) :
           \E k \in DOMAIN dbInvitations'[pl] : dbInvitations'[pl][k] = r]_vars


\* this step is handler p's Vote going on from the fetch of a game whose
\* current_step names none of its steps
VoteOnMissingStep(p) ==
  /\ pc[p] = "vote_fetched"
  /\ lgame[p].CurrentStep \notin StepBins
  /\ pc'[p] # pc[p]

\* C38: a Vote on a game whose currentStep names no step returns false
\* without crashing, writes nothing and releases the lock
C38_VoteOnMissingStepFails ==
  [][\A p \in Procs :
       VoteOnMissingStep(p) =>
         /\ pc'[p] = "done" /\ ret'[p] = "false"
         /\ UNCHANGED gameVars
         /\ mu' = FALSE]_vars


\* C39: when AddAllStepsToDb succeeds, the list it returns is the N input
\* steps, each once, in their input order, the step at position i having
\* index i
C39_ReturnsInputSteps ==
  (sched.pc = "done" /\ sched.ret = "steps") =>
    /\ sched.steps = [k \in 1..Len(stepObj) |-> k]
    /\ \A k \in DOMAIN sched.steps : stepObj[sched.steps[k]].StepIndex = k - 1
====
